---- MODULE Spec2Model ----
(***************************************************************************)
(* Model of turret_client: the message classes and the msgpack codec of    *)
(* msgs.py, and the discovery handshake and TCP session of client.py.      *)
(*                                                                         *)
(* Python values are records tagged with their type; byte strings are      *)
(* sequences of numbers 0..255; a Python str is the sequence of its (ASCII) *)
(* code points.  A call's outcome is a record: [ok |-> TRUE, val |-> v]    *)
(* when it returns v, [ok |-> FALSE, exc |-> name] when it raises.          *)
(***************************************************************************)
EXTENDS Integers, Sequences, FiniteSets, TLC

\* ------------------------------------------------------------------------
\* Python values
\* ------------------------------------------------------------------------
None == [t |-> "NoneType"]
PBool(b) == [t |-> "bool", b |-> b]
PInt(i) == [t |-> "int", i |-> i]
\* a double holding the whole number f
PFloat(f) == [t |-> "float", f |-> f]
\* float("nan"): a double that is unequal to every double, itself included
NaN == [t |-> "nan"]
\* any other double (fraction, infinity, subnormal), kept as its 8 bytes
PFloatBits(bits) == [t |-> "floatbits", bits |-> bits]
PStr(s) == [t |-> "str", s |-> s]
PList(l) == [t |-> "list", l |-> l]
\* a dict: its items <<key, value>> in insertion order, keys (code point
\* sequences of str keys) pairwise distinct
PDict(kv) == [t |-> "dict", kv |-> kv]

Ok(v) == [ok |-> TRUE, val |-> v]
Raise(e) == [ok |-> FALSE, exc |-> e]

\* isinstance(v, int): bool is a subclass of int
IsInt(v) == v.t \in {"int", "bool"}
\* isinstance(v, float)
IsFloat(v) == v.t \in {"float", "nan", "floatbits"}
IsNumber(v) == v.t \in {"int", "bool", "float"}
\* the number an int, a bool or a whole double stands for
Num(v) == IF v.t = "int" THEN v.i ELSE IF v.t = "bool" THEN (IF v.b THEN 1 ELSE 0) ELSE v.f

\* a == b of two Python values that are distinct objects
PyEq(a, b) ==
    IF IsNumber(a) /\ IsNumber(b) THEN Num(a) = Num(b)
    ELSE IF a.t = "nan" \/ b.t = "nan" THEN FALSE
    ELSE a = b

\* the strings of the protocol
S_type == <<116, 121, 112, 101>>
S_move == <<109, 111, 118, 101>>
S_shoot == <<115, 104, 111, 111, 116>>
S_acknowledge == <<97, 99, 107, 110, 111, 119, 108, 101, 100, 103, 101>>
S_discover == <<100, 105, 115, 99, 111, 118, 101, 114>>
S_address == <<97, 100, 100, 114, 101, 115, 115>>
S_statusrequest == <<115, 116, 97, 116, 117, 115, 114, 101, 113, 117, 101, 115, 116>>
S_status == <<115, 116, 97, 116, 117, 115>>
S_reset == <<114, 101, 115, 101, 116>>
S_base_angle == <<98, 97, 115, 101, 95, 97, 110, 103, 108, 101>>
S_elev_angle == <<101, 108, 101, 118, 95, 97, 110, 103, 108, 101>>
S_elevation_angle == <<101, 108, 101, 118, 97, 116, 105, 111, 110, 95, 97, 110, 103, 108, 101>>
S_times == <<116, 105, 109, 101, 115>>
S_shots == <<115, 104, 111, 116, 115>>
S_port == <<112, 111, 114, 116>>

\* ------------------------------------------------------------------------
\* dict access
\* ------------------------------------------------------------------------
HasKey(d, k) == \E i \in 1..Len(d.kv) : d.kv[i][1] = k
GetItem(d, k) == d.kv[CHOOSE i \in 1..Len(d.kv) : d.kv[i][1] = k][2]
\* d[k] = v: a present key keeps its place, a new key goes last
SetItem(kv, k, v) ==
    IF \E i \in 1..Len(kv) : kv[i][1] = k
    THEN [i \in 1..Len(kv) |-> IF kv[i][1] = k THEN <<k, v>> ELSE kv[i]]
    ELSE Append(kv, <<k, v>>)

\* ------------------------------------------------------------------------
\* msgpack: the formats the library chooses for the values of the model
\* (fixint, uint 8/16, int 8/16, float 64, fixstr, fixarray, fixmap, nil,
\* true, false).  Integers of the model lie in -32768..65535, strings have
\* at most 31 ASCII characters, containers at most 15 items, whole doubles
\* are below 2^20 in magnitude.
\* ------------------------------------------------------------------------
Pow2(n) == 2 ^ n
Abs(n) == IF n < 0 THEN -n ELSE n
Log2(a) == CHOOSE e \in 0..19 : Pow2(e) <= a /\ a < Pow2(e + 1)

\* IEEE 754 binary64, big endian, of the whole number f
F64(f) ==
    IF f = 0 THEN <<0, 0, 0, 0, 0, 0, 0, 0>>
    ELSE LET a == Abs(f)
             e == Log2(a)
             ex == 1023 + e
             m == (a - Pow2(e)) * Pow2(20 - e)
         IN <<(IF f < 0 THEN 128 ELSE 0) + ex \div 16,
              (ex % 16) * 16 + m \div 65536,
              (m \div 256) % 256,
              m % 256, 0, 0, 0, 0>>

\* the double of 8 big-endian bytes
UnF64(b) ==
    LET neg == b[1] >= 128
        ex == (b[1] % 128) * 16 + b[2] \div 16
        m == (b[2] % 16) * 65536 + b[3] * 256 + b[4]
        low0 == b[5] = 0 /\ b[6] = 0 /\ b[7] = 0 /\ b[8] = 0
        e == ex - 1023
    IN IF ex = 0 /\ m = 0 /\ low0 THEN PFloat(0)
       ELSE IF ex = 2047 /\ ~(m = 0 /\ low0) THEN NaN
       ELSE IF e \in 0..19 /\ low0 /\ m % Pow2(20 - e) = 0
            THEN PFloat((IF neg THEN -1 ELSE 1) * (Pow2(e) + m \div Pow2(20 - e)))
       ELSE PFloatBits(b)

PackInt(i) ==
    IF i >= 0 /\ i <= 127 THEN <<i>>
    ELSE IF i < 0 /\ i >= -32 THEN <<256 + i>>
    ELSE IF i >= 128 /\ i <= 255 THEN <<204, i>>
    ELSE IF i >= 256 THEN <<205, i \div 256, i % 256>>
    ELSE IF i >= -128 THEN <<208, 256 + i>>
    ELSE <<209, (65536 + i) \div 256, (65536 + i) % 256>>

RECURSIVE Pack(_), PackItems(_, _)
\* msgpack.packb(v)
Pack(v) ==
    CASE v.t = "NoneType" -> <<192>>
      [] v.t = "bool" -> IF v.b THEN <<195>> ELSE <<194>>
      [] v.t = "int" -> PackInt(v.i)
      [] v.t = "float" -> <<203>> \o F64(v.f)
      [] v.t = "nan" -> <<203, 127, 248, 0, 0, 0, 0, 0, 0>>
      [] v.t = "floatbits" -> <<203>> \o v.bits
      [] v.t = "str" -> <<160 + Len(v.s)>> \o v.s
      [] v.t = "list" -> <<144 + Len(v.l)>> \o PackItems(v.l, 1)
      [] v.t = "dict" -> <<128 + Len(v.kv)>> \o
            PackItems([i \in 1..(2 * Len(v.kv)) |->
                          IF i % 2 = 1 THEN PStr(v.kv[(i + 1) \div 2][1])
                          ELSE v.kv[i \div 2][2]], 1)
PackItems(l, i) == IF i > Len(l) THEN <<>> ELSE Pack(l[i]) \o PackItems(l, i + 1)
packb(v) == Pack(v)

\* ------------------------------------------------------------------------
\* msgpack.unpackb (raw=False, strict_map_key=True, the library's defaults)
\* A parse from position i ends "ok" with the value and the next position,
\* "short" when the bytes run out, or "bad" with the exception raised.
\* Header bytes of formats Pack never produces (bin, ext, float 32, the 32
\* and 64 bit integers, str 8/16/32, array and map 16/32) are not modelled:
\* no input of the model holds one, and a parse that met one would end
\* "bad" with "Unmodelled".
\* ------------------------------------------------------------------------
POk(v, n) == [st |-> "ok", val |-> v, nxt |-> n]
PShort == [st |-> "short"]
PBad(e) == [st |-> "bad", exc |-> e]
Slice(bs, i, n) == [k \in 1..n |-> bs[i + k - 1]]

RECURSIVE Parse(_, _), ParseList(_, _, _, _), ParseMap(_, _, _, _)
Parse(bs, i) ==
    IF i > Len(bs) THEN PShort
    ELSE LET h == bs[i] IN
      CASE h <= 127 -> POk(PInt(h), i + 1)
        [] h >= 128 /\ h <= 143 -> ParseMap(bs, i + 1, h - 128, <<>>)
        [] h >= 144 /\ h <= 159 -> ParseList(bs, i + 1, h - 144, <<>>)
        [] h >= 160 /\ h <= 191 ->
             LET n == h - 160 IN
             IF i + n > Len(bs) THEN PShort
             ELSE IF \E k \in 1..n : bs[i + k] >= 128 THEN PBad("UnicodeDecodeError")
             ELSE POk(PStr(Slice(bs, i + 1, n)), i + 1 + n)
        [] h = 192 -> POk(None, i + 1)
        [] h = 193 -> PBad("FormatError")
        [] h = 194 -> POk(PBool(FALSE), i + 1)
        [] h = 195 -> POk(PBool(TRUE), i + 1)
        [] h = 203 -> IF i + 8 > Len(bs) THEN PShort
                      ELSE POk(UnF64(Slice(bs, i + 1, 8)), i + 9)
        [] h = 204 -> IF i + 1 > Len(bs) THEN PShort ELSE POk(PInt(bs[i + 1]), i + 2)
        [] h = 205 -> IF i + 2 > Len(bs) THEN PShort
                      ELSE POk(PInt(bs[i + 1] * 256 + bs[i + 2]), i + 3)
        [] h = 208 -> IF i + 1 > Len(bs) THEN PShort
                      ELSE POk(PInt(IF bs[i + 1] >= 128 THEN bs[i + 1] - 256 ELSE bs[i + 1]), i + 2)
        [] h = 209 -> IF i + 2 > Len(bs) THEN PShort
                      ELSE LET u == bs[i + 1] * 256 + bs[i + 2]
                           IN POk(PInt(IF u >= 32768 THEN u - 65536 ELSE u), i + 3)
        [] h >= 224 -> POk(PInt(h - 256), i + 1)
        [] OTHER -> PBad("Unmodelled")
\* the n remaining items of an array, after the items acc
ParseList(bs, i, n, acc) ==
    IF n = 0 THEN POk(PList(acc), i)
    ELSE LET r == Parse(bs, i) IN
         IF r.st # "ok" THEN r ELSE ParseList(bs, r.nxt, n - 1, Append(acc, r.val))
\* the n remaining items of a map, after the items kv; a key that is not a
\* str is refused as soon as it is read
ParseMap(bs, i, n, kv) ==
    IF n = 0 THEN POk(PDict(kv), i)
    ELSE LET k == Parse(bs, i) IN
         IF k.st # "ok" THEN k
         ELSE IF k.val.t # "str" THEN PBad("ValueError")
         ELSE LET v == Parse(bs, k.nxt) IN
              IF v.st # "ok" THEN v
              ELSE ParseMap(bs, v.nxt, n - 1, SetItem(kv, k.val.s, v.val))

\* msgpack.unpackb(bs): exactly one object, nothing after it
unpackb(bs) ==
    LET r == Parse(bs, 1) IN
    IF r.st = "short" THEN Raise("ValueError")
    ELSE IF r.st = "bad" THEN Raise(r.exc)
    ELSE IF r.nxt <= Len(bs) THEN Raise("ExtraData")
    ELSE Ok(r.val)

\* ------------------------------------------------------------------------
\* msgs.py: the message classes
\* A message object is a record of its class and fields.  MoveMsg, ShootMsg,
\* AddrMsg and StatusMsg are dataclasses; AckMsg, DiscoverMsg,
\* RequestStatusMsg and ResetMsg are plain classes, whose objects carry
\* their identity id (what object.__eq__ compares).
\* ------------------------------------------------------------------------
Classes == {"MoveMsg", "ShootMsg", "AckMsg", "DiscoverMsg", "AddrMsg",
            "RequestStatusMsg", "StatusMsg", "ResetMsg"}
DataClasses == {"MoveMsg", "ShootMsg", "AddrMsg", "StatusMsg"}

\* the tag each class writes in to_dict and expects in from_dict
Tag(cls) ==
    CASE cls = "MoveMsg" -> S_move
      [] cls = "ShootMsg" -> S_shoot
      [] cls = "AckMsg" -> S_acknowledge
      [] cls = "DiscoverMsg" -> S_discover
      [] cls = "AddrMsg" -> S_address
      [] cls = "RequestStatusMsg" -> S_statusrequest
      [] cls = "StatusMsg" -> S_status
      [] cls = "ResetMsg" -> S_reset

\* as check_msg_type, had it only looked for the key
check_msg_type_PresenceOnly(msg, expected) ==
    IF ~HasKey(msg, S_type) THEN Raise("MsgTypeError") ELSE Ok(None)

check_msg_type(msg, expected) ==
    IF ~HasKey(msg, S_type) THEN Raise("MsgTypeError")
    ELSE IF GetItem(msg, S_type) # PStr(expected) THEN Raise("MsgTypeError")
    ELSE Ok(None)

\* data_type is "int", "float" or "str"
IsInstance(v, data_type) ==
    CASE data_type = "int" -> IsInt(v)
      [] data_type = "float" -> IsFloat(v)
      [] data_type = "str" -> v.t = "str"

get_msg_data(msg, name, data_type) ==
    IF ~HasKey(msg, name) THEN Raise("MsgDataError")
    ELSE IF ~IsInstance(GetItem(msg, name), data_type) THEN Raise("MsgDataError")
    ELSE Ok(GetItem(msg, name))

\* as check_int, had it left out the lower bound
check_int_NoBound(value, lb) ==
    IF ~IsInt(value) THEN Raise("TypeError") ELSE Ok(None)

\* lb is an int or None
check_int(value, lb) ==
    IF ~IsInt(value) THEN Raise("TypeError")
    ELSE IF lb # None /\ Num(value) < Num(lb) THEN Raise("ValueError")
    ELSE Ok(None)

\* the constructors: the generated __init__ and __post_init__
MoveMsg(base_angle, elev_angle) ==
    Ok([cls |-> "MoveMsg", base_angle |-> base_angle, elev_angle |-> elev_angle])

ShootMsg(times) ==
    LET c == check_int(times, PInt(0)) IN
    IF ~c.ok THEN c ELSE Ok([cls |-> "ShootMsg", times |-> times])

AckMsg(id) == Ok([cls |-> "AckMsg", id |-> id])
DiscoverMsg(id) == Ok([cls |-> "DiscoverMsg", id |-> id])
RequestStatusMsg(id) == Ok([cls |-> "RequestStatusMsg", id |-> id])
ResetMsg(id) == Ok([cls |-> "ResetMsg", id |-> id])

AddrMsg(port) ==
    LET c == check_int(port, PInt(1)) IN
    IF ~c.ok THEN c ELSE Ok([cls |-> "AddrMsg", port |-> port])

\* float(v) of an int or bool
ToFloat(v) == PFloat(Num(v))

StatusMsg(base_angle, elev_angle, shots) ==
    LET b == IF IsInt(base_angle) THEN ToFloat(base_angle) ELSE base_angle
        e == IF IsInt(elev_angle) THEN ToFloat(elev_angle) ELSE elev_angle
        c == check_int(shots, PInt(0))
    IN IF ~IsFloat(b) THEN Raise("TypeError")
       ELSE IF ~IsFloat(e) THEN Raise("TypeError")
       ELSE IF ~c.ok THEN c
       ELSE Ok([cls |-> "StatusMsg", base_angle |-> b, elev_angle |-> e, shots |-> shots])

\* cls(*args); id is the identity of the new object
New(cls, args, id) ==
    CASE cls = "MoveMsg" -> MoveMsg(args[1], args[2])
      [] cls = "ShootMsg" -> ShootMsg(args[1])
      [] cls = "AckMsg" -> AckMsg(id)
      [] cls = "DiscoverMsg" -> DiscoverMsg(id)
      [] cls = "AddrMsg" -> AddrMsg(args[1])
      [] cls = "RequestStatusMsg" -> RequestStatusMsg(id)
      [] cls = "StatusMsg" -> StatusMsg(args[1], args[2], args[3])
      [] cls = "ResetMsg" -> ResetMsg(id)

to_dict(m) ==
    CASE m.cls = "MoveMsg" ->
           PDict(<< <<S_type, PStr(S_move)>>, <<S_base_angle, m.base_angle>>,
                    <<S_elev_angle, m.elev_angle>> >>)
      [] m.cls = "ShootMsg" ->
           PDict(<< <<S_type, PStr(S_shoot)>>, <<S_times, m.times>> >>)
      [] m.cls = "AddrMsg" ->
           PDict(<< <<S_type, PStr(S_address)>>, <<S_port, m.port>> >>)
      [] m.cls = "StatusMsg" ->
           PDict(<< <<S_type, PStr(S_status)>>, <<S_base_angle, m.base_angle>>,
                    <<S_elevation_angle, m.elev_angle>>, <<S_shots, m.shots>> >>)
      [] OTHER -> PDict(<< <<S_type, PStr(Tag(m.cls))>> >>)

MoveMsg_from_dict(d) ==
    LET t == check_msg_type(d, S_move)
        b == get_msg_data(d, S_base_angle, "float")
        e == get_msg_data(d, S_elev_angle, "float")
    IN IF ~t.ok THEN t ELSE IF ~b.ok THEN b ELSE IF ~e.ok THEN e
       ELSE MoveMsg(b.val, e.val)

ShootMsg_from_dict(d) ==
    LET t == check_msg_type(d, S_shoot)
        n == get_msg_data(d, S_times, "int")
    IN IF ~t.ok THEN t ELSE IF ~n.ok THEN n ELSE ShootMsg(n.val)

AddrMsg_from_dict(d) ==
    LET t == check_msg_type(d, S_address)
        p == get_msg_data(d, S_port, "int")
    IN IF ~t.ok THEN t ELSE IF ~p.ok THEN p ELSE AddrMsg(p.val)

StatusMsg_from_dict(d) ==
    LET t == check_msg_type(d, S_status)
        b == get_msg_data(d, S_base_angle, "float")
        e == get_msg_data(d, S_elevation_angle, "float")
        n == get_msg_data(d, S_shots, "int")
    IN IF ~t.ok THEN t ELSE IF ~b.ok THEN b ELSE IF ~e.ok THEN e ELSE IF ~n.ok THEN n
       ELSE StatusMsg(b.val, e.val, n.val)

\* from_dict of the four classes without fields
Plain_from_dict(cls, d, id) ==
    LET t == check_msg_type(d, Tag(cls)) IN
    IF ~t.ok THEN t ELSE New(cls, <<>>, id)

\* cls.from_dict(d); id is the identity of the object it would create
from_dict(cls, d, id) ==
    CASE cls = "MoveMsg" -> MoveMsg_from_dict(d)
      [] cls = "ShootMsg" -> ShootMsg_from_dict(d)
      [] cls = "AddrMsg" -> AddrMsg_from_dict(d)
      [] cls = "StatusMsg" -> StatusMsg_from_dict(d)
      [] OTHER -> Plain_from_dict(cls, d, id)

\* a == b of two message objects: the dataclass __eq__ compares the field
\* tuples of two objects of the same class, object.__eq__ the identities
MsgEq(a, b) ==
    IF a.cls # b.cls THEN FALSE
    ELSE CASE a.cls = "MoveMsg" ->
                PyEq(a.base_angle, b.base_angle) /\ PyEq(a.elev_angle, b.elev_angle)
           [] a.cls = "ShootMsg" -> PyEq(a.times, b.times)
           [] a.cls = "AddrMsg" -> PyEq(a.port, b.port)
           [] a.cls = "StatusMsg" ->
                PyEq(a.base_angle, b.base_angle) /\ PyEq(a.elev_angle, b.elev_angle)
                /\ PyEq(a.shots, b.shots)
           [] OTHER -> a.id = b.id

\* isinstance(m, Msg)
IsMsg(m) == "cls" \in DOMAIN m

encode(msg) ==
    IF ~IsMsg(msg) THEN Raise("TypeError") ELSE Ok(packb(to_dict(msg)))

decode(bs, msg_type, id) ==
    LET msg_data == unpackb(bs) IN
    IF ~msg_data.ok THEN msg_data
    ELSE IF msg_data.val.t # "dict" THEN Raise("DecodeError")
    ELSE from_dict(msg_type, unpackb(bs).val, id)

\* ------------------------------------------------------------------------
\* client.py: discovery and the session
\* The environment of a call (what the network and the peer do) is a record
\* the action draws; the call's outcome is computed from it as the code does.
\* ------------------------------------------------------------------------
DiscoveryPort == 12346
RecvBufSize == 1024
Broadcast == <<"255.255.255.255", DiscoveryPort>>

Min(a, b) == IF a < b THEN a ELSE b
Prefix(bs, k) == [i \in 1..k |-> bs[i]]
Suffix(bs, k) == [i \in 1..(Len(bs) - k) |-> bs[i + k]]

\* as discover_server, had it returned the address the datagram was sent to
discover_server_BroadcastIp(send, dgram, id) ==
    LET msg_bytes == packb(PDict(<< <<S_type, PStr(S_discover)>> >>))
        sent == <<[data |-> msg_bytes, dest |-> <<"255.255.255.255", 12346>>]>>
        resp == decode(dgram.data, "AddrMsg", id + 1)
    IN IF send # "ok"
       THEN [res |-> Raise(send), sent |-> sent, recvs |-> 0, closed |-> TRUE, blocked |-> FALSE]
       ELSE IF dgram.silent
       THEN [res |-> Raise(""), sent |-> sent, recvs |-> 1, closed |-> FALSE, blocked |-> TRUE]
       ELSE IF ~resp.ok
       THEN [res |-> resp, sent |-> sent, recvs |-> 1, closed |-> TRUE, blocked |-> FALSE]
       ELSE [res |-> Ok([t |-> "tuple", ip |-> "255.255.255.255", port |-> resp.val.port]),
             sent |-> sent, recvs |-> 1, closed |-> TRUE, blocked |-> FALSE]

\* _discover_server().  send is "ok" or "OSError" (what sendto does), dgram is
\* the datagram recvfrom returns, [data, src], or Silent when none ever comes;
\* id and id + 1 are the identities of the objects created.  The outcome
\* holds the result, the datagrams sent, the number of recvfrom calls, and
\* whether the socket was closed (the with block was left).
\* the tuple (ip, port)
Addr(ip, port) == [t |-> "tuple", ip |-> ip, port |-> port]
Silent == [src |-> "", data |-> <<>>, silent |-> TRUE]
Datagram(src, data) == [src |-> src, data |-> data, silent |-> FALSE]
discovery(send, dgram, msg_bytes, resp) ==
    LET sent == <<[data |-> msg_bytes, dest |-> Broadcast]>>
    IN IF send # "ok"
       THEN [res |-> Raise(send), sent |-> sent, recvs |-> 0, closed |-> TRUE, blocked |-> FALSE]
       ELSE IF dgram.silent
       THEN [res |-> Raise(""), sent |-> sent, recvs |-> 1, closed |-> FALSE, blocked |-> TRUE]
       ELSE IF ~resp.ok
       THEN [res |-> resp, sent |-> sent, recvs |-> 1, closed |-> TRUE, blocked |-> FALSE]
       ELSE [res |-> Ok(Addr(dgram.src, resp.val.port)), sent |-> sent, recvs |-> 1,
             closed |-> TRUE, blocked |-> FALSE]
\* msg_bytes = encode(DiscoverMsg()), resp = decode(data, AddrMsg)
discover_server(send, dgram, id) ==
    discovery(send, dgram, encode(DiscoverMsg(id).val).val,
              decode(dgram.data, "AddrMsg", id + 1))

NoDiscovery == [res |-> Raise(""), sent |-> <<>>, recvs |-> 0, closed |-> FALSE, blocked |-> FALSE]
NoPeer == Addr("", None)

\* TurretClient.__init__(addr): addr is None or a tuple (ip, port); connect is "ok"
\* or "OSError" (what socket.connect does).  The outcome holds the exception
\* that escapes ("" when none), the address connect was called with and the
\* discovery that was run.
connect_to(addr, d, connect) ==
    LET a == IF addr = None THEN d.res.val ELSE addr
    IN IF addr = None /\ d.blocked
       THEN [exc |-> "", blocked |-> TRUE, connected |-> FALSE, tried |-> NoPeer, udp |-> d]
       ELSE IF addr = None /\ ~d.res.ok
       THEN [exc |-> d.res.exc, blocked |-> FALSE, connected |-> FALSE, tried |-> NoPeer, udp |-> d]
       ELSE IF connect # "ok"
       THEN [exc |-> connect, blocked |-> FALSE, connected |-> FALSE, tried |-> a, udp |-> d]
       ELSE [exc |-> "", blocked |-> FALSE, connected |-> TRUE, tried |-> a, udp |-> d]
\* d is what _discover_server() did, when it was called
init(addr, send, dgram, connect, id) ==
    connect_to(addr, IF addr = None THEN discover_server(send, dgram, id) ELSE NoDiscovery,
               connect)

\* The part move and shoot share, from the send to the warning.  env is
\*   send:  "ok" or "OSError", what self._sock.send does;
\*   reply: the bytes the server puts on the stream after the request;
\*   recv:  "data" (the first k bytes waiting are returned), "eof" (the peer
\*          has closed and nothing is waiting: b""), "OSError", or "block"
\*          (nothing is waiting and nothing ever comes).
\* stream holds the bytes that wait unread on the connection.
SendEv(bs) == [ev |-> "send", data |-> bs]
RecvEv(bs) == [ev |-> "recv", data |-> bs]
\* as ack_outcome, had the handler been "except MsgError"
ack_outcome_MsgErrorOnly(resp_bytes, id) ==
    LET r == decode(resp_bytes, "AckMsg", id) IN
    IF r.ok THEN [exc |-> "", warned |-> 0]
    ELSE IF r.exc \in {"MsgTypeError", "MsgDataError", "DecodeError"}
         THEN [exc |-> "", warned |-> 1]
    ELSE [exc |-> r.exc, warned |-> 0]

\* the try block: a bare except catches whatever decode raises and warns once
ack_outcome(resp_bytes, id) ==
    IF decode(resp_bytes, "AckMsg", id).ok THEN [exc |-> "", warned |-> 0]
    ELSE [exc |-> "", warned |-> 1]

\* as send_recv_ack, had the recv been inside the try block
send_recv_ack_RecvInTry(msg_bytes, env, stream, id) ==
    LET waiting == stream \o env.reply
        resp_bytes == IF env.recv = "data" THEN [i \in 1..env.k |-> waiting[i]] ELSE <<>>
        sent == [ev |-> "send", data |-> msg_bytes]
    IN IF env.send # "ok"
       THEN [io |-> <<sent>>, exc |-> env.send, warned |-> 0, blocked |-> FALSE,
             stream |-> stream, resp |-> <<>>, got |-> FALSE]
       ELSE IF env.recv = "OSError"
       THEN [io |-> <<sent, [ev |-> "recv", data |-> <<>>]>>, exc |-> "", warned |-> 1,
             blocked |-> FALSE, stream |-> waiting, resp |-> <<>>, got |-> FALSE]
       ELSE IF env.recv = "block"
       THEN [io |-> <<sent, [ev |-> "recv", data |-> <<>>]>>, exc |-> "", warned |-> 0,
             blocked |-> TRUE, stream |-> waiting, resp |-> <<>>, got |-> FALSE]
       ELSE [io |-> <<sent, [ev |-> "recv", data |-> resp_bytes]>>, exc |-> "",
             warned |-> IF decode(resp_bytes, "AckMsg", id).ok THEN 0 ELSE 1,
             blocked |-> FALSE,
             stream |-> [i \in 1..(Len(waiting) - Len(resp_bytes)) |-> waiting[i + Len(resp_bytes)]],
             resp |-> resp_bytes, got |-> TRUE]

\* as send_recv_ack, had it sent the request again when no acknowledgement came
send_recv_ack_Resend(msg_bytes, env, stream, id) ==
    LET waiting == stream \o env.reply
        resp_bytes == IF env.recv = "data" THEN [i \in 1..env.k |-> waiting[i]] ELSE <<>>
        sent == [ev |-> "send", data |-> msg_bytes]
        acked == decode(resp_bytes, "AckMsg", id).ok
    IN IF env.send # "ok"
       THEN [io |-> <<sent>>, exc |-> env.send, warned |-> 0, blocked |-> FALSE,
             stream |-> stream, resp |-> <<>>, got |-> FALSE]
       ELSE IF env.recv = "OSError"
       THEN [io |-> <<sent, [ev |-> "recv", data |-> <<>>]>>, exc |-> "OSError", warned |-> 0,
             blocked |-> FALSE, stream |-> waiting, resp |-> <<>>, got |-> FALSE]
       ELSE IF env.recv = "block"
       THEN [io |-> <<sent, [ev |-> "recv", data |-> <<>>]>>, exc |-> "", warned |-> 0,
             blocked |-> TRUE, stream |-> waiting, resp |-> <<>>, got |-> FALSE]
       ELSE [io |-> IF acked THEN <<sent, [ev |-> "recv", data |-> resp_bytes]>>
                    ELSE <<sent, [ev |-> "recv", data |-> resp_bytes], sent>>,
             exc |-> "", warned |-> IF acked THEN 0 ELSE 1, blocked |-> FALSE,
             stream |-> [i \in 1..(Len(waiting) - Len(resp_bytes)) |-> waiting[i + Len(resp_bytes)]],
             resp |-> resp_bytes, got |-> TRUE]

\* the outcome of a call whose recv returned resp_bytes and left rest unread
received(msg_bytes, resp_bytes, rest, ack) ==
    [io |-> <<SendEv(msg_bytes), RecvEv(resp_bytes)>>, exc |-> ack.exc, warned |-> ack.warned,
     blocked |-> FALSE, stream |-> rest, resp |-> resp_bytes, got |-> TRUE]

send_recv_ack(msg_bytes, env, stream, id) ==
    LET waiting == stream \o env.reply
        resp_bytes == IF env.recv = "data" THEN Prefix(waiting, env.k) ELSE <<>>
    IN IF env.send # "ok"
       THEN [io |-> <<SendEv(msg_bytes)>>, exc |-> env.send, warned |-> 0, blocked |-> FALSE,
             stream |-> stream, resp |-> <<>>, got |-> FALSE]
       ELSE IF env.recv = "OSError"
       THEN [io |-> <<SendEv(msg_bytes), RecvEv(<<>>)>>, exc |-> "OSError", warned |-> 0,
             blocked |-> FALSE, stream |-> waiting, resp |-> <<>>, got |-> FALSE]
       ELSE IF env.recv = "block"
       THEN [io |-> <<SendEv(msg_bytes), RecvEv(<<>>)>>, exc |-> "", warned |-> 0,
             blocked |-> TRUE, stream |-> waiting, resp |-> <<>>, got |-> FALSE]
       ELSE received(msg_bytes, resp_bytes, Suffix(waiting, Len(resp_bytes)),
                     ack_outcome(resp_bytes, id))

\* a call that raised before it touched the socket
Raised(e, stream) ==
    [io |-> <<>>, exc |-> e, warned |-> 0, blocked |-> FALSE, stream |-> stream,
     resp |-> <<>>, got |-> FALSE]

move_call(base_angle, elev_angle, env, stream, id) ==
    LET msg == MoveMsg(base_angle, elev_angle) IN
    IF ~msg.ok THEN Raised(msg.exc, stream)
    ELSE send_recv_ack(encode(msg.val).val, env, stream, id)

shoot_call(n, env, stream, id) ==
    LET msg == ShootMsg(n) IN
    IF ~msg.ok THEN Raised(msg.exc, stream)
    ELSE send_recv_ack(encode(msg.val).val, env, stream, id)

\* ------------------------------------------------------------------------
\* Bounds and the inputs drawn
\* ------------------------------------------------------------------------
\* numbers given as arguments and fields lie in -1..MaxNum
MaxNum == 1
\* calls of move and shoot on one session
MaxOps == 2
\* a recv that returns part of what waits returns at most MaxCut bytes, or all
\* but at most MaxCut bytes
MaxCut == 1

Nums == -1..MaxNum
Scalars == {None, PBool(TRUE), PBool(FALSE), NaN, PStr(S_move)}
           \cup {PInt(i) : i \in Nums} \cup {PFloat(f) : f \in Nums}
AngleVals == {PFloat(0), PInt(MaxNum), NaN, None}

Angles == {None, NaN} \cup {PInt(i) : i \in Nums} \cup {PFloat(f) : f \in Nums}
Calls == {[cls |-> "MoveMsg", args |-> <<a, b>>] : a \in Angles, b \in Angles}
         \cup {[cls |-> c, args |-> <<a>>] : c \in {"ShootMsg", "AddrMsg"}, a \in Scalars}
         \cup {[cls |-> "StatusMsg", args |-> <<a, b, n>>] :
                  a \in AngleVals, b \in AngleVals, n \in Scalars}
         \cup {[cls |-> c, args |-> <<>>] : c \in Classes \ DataClasses}

TypeItems == {<<>>, << <<S_type, PInt(1)>> >>}
             \cup {<< <<S_type, PStr(Tag(c))>> >> : c \in Classes}
FieldItems == {<<>>}
              \cup {<< <<k, v>> >> : k \in {S_times, S_port}, v \in Scalars}
              \cup {<< <<S_base_angle, a>>, <<S_elev_angle, b>> >> :
                       a \in AngleVals, b \in AngleVals}
              \cup {<< <<S_base_angle, a>>, <<S_elevation_angle, b>>, <<S_shots, n>> >> :
                       a \in AngleVals, b \in {PFloat(1), PInt(1)}, n \in Scalars}
DictInputs == {PDict(ty \o fl) : ty \in TypeItems, fl \in FieldItems}

AckBytes == packb(to_dict(AckMsg(0).val))
\* byte strings that are no map: cut or empty encodings, an encoding with a
\* byte after it, the unused header 0xc1, a map with an int key, and values
\* other than a map
NonMaps == {Prefix(AckBytes, k) : k \in 0..(Len(AckBytes) - 1)}
           \cup {AckBytes \o <<0>>, <<193>>, <<129, 1, 2>>}
           \cup {packb(v) : v \in {None, PInt(5), PStr(S_acknowledge),
                                    PList(<<PStr(S_type), PStr(S_acknowledge)>>)}}
RawInputs == NonMaps \cup {packb(d) : d \in DictInputs}

IPs == {"10.0.0.5", "10.0.0.9"}
GivenAddrs == {Addr("10.0.0.9", PInt(7000))}
DiscoveryReplies ==
    {packb(PDict(<< <<S_type, PStr(S_address)>>, <<S_port, p>> >>)) :
        p \in {PInt(9000), PInt(0), PFloat(1)}}
    \cup {AckBytes, <<193>>, <<>>}
Datagrams == {Silent} \cup {Datagram(s, d) : s \in IPs, d \in DiscoveryReplies}
\* the environments of __init__: what sendto does, the datagram that comes,
\* what connect does
InitEnvs == {[send |-> s, dgram |-> g, connect |-> c] :
                s \in {"ok", "OSError"}, g \in Datagrams, c \in {"ok", "OSError"}}

MoveArgs == {<<PFloat(10), PFloat(5)>>, <<PInt(10), PInt(5)>>, <<PFloat(MaxNum), None>>}
ShootArgs == {PInt(i) : i \in Nums} \cup {PFloat(1)}
\* what a server answers: the acknowledgement, nothing, the unused header
\* 0xc1, an int, and a map with another tag
Replies == {AckBytes, <<>>, <<193>>, <<5>>, packb(to_dict(DiscoverMsg(0).val))}
\* the sizes recv(RecvBufSize) may return when n bytes wait
RecvSizes(n) == {k \in 1..Min(n, RecvBufSize) : k <= MaxCut \/ k >= n - MaxCut}
Envs(stream) ==
    {[send |-> "OSError", reply |-> <<>>, recv |-> "data", k |-> 0]}
    \cup {[send |-> "ok", reply |-> r, recv |-> "OSError", k |-> 0] : r \in {AckBytes}}
    \cup {[send |-> "ok", reply |-> <<>>, recv |-> x, k |-> 0] :
             x \in IF stream = <<>> THEN {"eof", "block"} ELSE {}}
    \cup UNION {{[send |-> "ok", reply |-> r, recv |-> "data", k |-> k] :
                    k \in RecvSizes(Len(stream \o r))} : r \in Replies}

\* ------------------------------------------------------------------------
\* State
\* ------------------------------------------------------------------------
VARIABLES
    run,      \* "codec": the message classes are exercised; "session": a client is
    cstep,    \* codec: "start", "built", "encoded", "decoded", "parsed"
    call,     \* codec: the constructor call made, [cls, args]
    msg,      \* codec: its outcome
    given,    \* codec: the dict handed to from_dict
    wire,     \* codec: the outcome of encode, or the bytes handed to decode
    out,      \* codec: [cls, res], the class decoded as and the outcome
    nextId,   \* the identity the next object gets
    pc,       \* session: "new", "connected", "failed", "blocked"
    ctor,     \* session: the call of __init__, its environment, its outcome
    stream,   \* session: bytes waiting unread on the TCP connection
    last,     \* session: the last call of move or shoot, its environment, its outcome
    nops,     \* session: calls of move and shoot made
    ackOnly   \* session: every reply of the server so far was one acknowledgement

vars == <<run, cstep, call, msg, given, wire, out, nextId, pc, ctor, stream, last, nops, ackOnly>>
codecVars == <<cstep, call, msg, given, wire, out>>
sessionVars == <<pc, ctor, stream, last, nops, ackOnly>>

Absent == Raise("")
NoCall == [cls |-> "", args |-> <<>>]
NoOut == [cls |-> "", res |-> Absent]
NoEnv == [send |-> "", reply |-> <<>>, recv |-> "", k |-> 0]
NoCtor == [addr |-> None, send |-> "", dgram |-> Silent, connect |-> "", exc |-> "",
           blocked |-> FALSE, connected |-> FALSE, tried |-> NoPeer, udp |-> NoDiscovery]
NoOp == [op |-> "", args |-> <<>>, env |-> NoEnv, io |-> <<>>, exc |-> "", warned |-> 0,
         blocked |-> FALSE, resp |-> <<>>, got |-> FALSE, n |-> 0]

Init ==
    /\ run \in {"codec", "session"}
    /\ cstep = "start" /\ call = NoCall /\ msg = Absent /\ given = None
    /\ wire = Absent /\ out = NoOut /\ nextId = 1
    /\ pc = "new" /\ ctor = NoCtor /\ stream = <<>> /\ last = NoOp /\ nops = 0
    /\ ackOnly = TRUE

\* ------------------------------------------------------------------------
\* Codec actions
\* ------------------------------------------------------------------------
\* cls(*args)
Construct ==
    /\ run = "codec" /\ cstep = "start"
    /\ \E c \in Calls :
         /\ call' = c
         /\ msg' = New(c.cls, c.args, nextId)
    /\ cstep' = "built" /\ nextId' = nextId + 1
    /\ UNCHANGED <<run, given, wire, out, sessionVars>>

\* encode(msg)
Encode ==
    /\ run = "codec" /\ cstep = "built" /\ msg.ok
    /\ wire' = encode(msg.val)
    /\ cstep' = "encoded"
    /\ UNCHANGED <<run, call, msg, given, out, nextId, sessionVars>>

\* decode(wire, V) of the bytes encode returned
Decode ==
    /\ run = "codec" /\ cstep = "encoded" /\ wire.ok
    /\ \E V \in Classes : out' = [cls |-> V, res |-> decode(wire.val, V, nextId)]
    /\ cstep' = "decoded" /\ nextId' = nextId + 1
    /\ UNCHANGED <<run, call, msg, given, wire, sessionVars>>

\* decode(bs, V) of bytes from elsewhere
DecodeBytes ==
    /\ run = "codec" /\ cstep = "start"
    /\ \E bs \in RawInputs, V \in Classes :
         /\ wire' = Ok(bs)
         /\ out' = [cls |-> V, res |-> decode(bs, V, nextId)]
    /\ cstep' = "decoded" /\ nextId' = nextId + 1
    /\ UNCHANGED <<run, call, msg, given, sessionVars>>

\* V.from_dict(d)
FromDict ==
    /\ run = "codec" /\ cstep = "start"
    /\ \E d \in DictInputs, V \in Classes :
         /\ given' = d
         /\ out' = [cls |-> V, res |-> from_dict(V, d, nextId)]
    /\ cstep' = "parsed" /\ nextId' = nextId + 1
    /\ UNCHANGED <<run, call, msg, wire, sessionVars>>

\* ------------------------------------------------------------------------
\* Session actions
\* ------------------------------------------------------------------------
\* o is the outcome of __init__(addr) in the environment e, of which the parts
\* the call reached are kept
Constructed(addr, e, o) ==
    /\ ctor' = [addr |-> addr,
                send |-> IF Len(o.udp.sent) > 0 THEN e.send ELSE "",
                dgram |-> IF o.udp.recvs > 0 THEN e.dgram ELSE Silent,
                connect |-> IF o.tried # NoPeer THEN e.connect ELSE "",
                exc |-> o.exc, blocked |-> o.blocked,
                connected |-> o.connected, tried |-> o.tried, udp |-> o.udp]
    /\ pc' = IF o.blocked THEN "blocked" ELSE IF o.connected THEN "connected" ELSE "failed"

\* TurretClient(addr)
TurretClient ==
    /\ run = "session" /\ pc = "new"
    /\ \E addr \in {None} \cup GivenAddrs, e \in InitEnvs :
         Constructed(addr, e, init(addr, e.send, e.dgram, e.connect, nextId))
    /\ nextId' = nextId + 2
    /\ UNCHANGED <<run, codecVars, stream, last, nops, ackOnly>>

Record(op, args, env, o) ==
    [op |-> op, args |-> args, env |-> IF Len(o.io) = 0 THEN NoEnv ELSE env, io |-> o.io, exc |-> o.exc, warned |-> o.warned,
     blocked |-> o.blocked, resp |-> o.resp, got |-> o.got, n |-> nops + 1]

Finish(op, args, env, o) ==
    /\ last' = Record(op, args, env, o)
    /\ stream' = o.stream
    /\ pc' = IF o.blocked THEN "blocked" ELSE pc
    /\ ackOnly' = (ackOnly /\ (Len(o.io) = 0 \/ env.send # "ok" \/ env.reply = AckBytes))
    /\ nops' = nops + 1
    /\ nextId' = nextId + 1
    /\ UNCHANGED <<run, codecVars, ctor>>

\* client.move(base_angle, elev_angle)
move ==
    /\ run = "session" /\ pc = "connected" /\ nops < MaxOps
    /\ \E a \in MoveArgs, env \in Envs(stream) :
         Finish("move", a, env, move_call(a[1], a[2], env, stream, nextId))

\* client.shoot(n)
shoot ==
    /\ run = "session" /\ pc = "connected" /\ nops < MaxOps
    /\ \E n \in ShootArgs, env \in Envs(stream) :
         Finish("shoot", <<n>>, env, shoot_call(n, env, stream, nextId))

Next == Construct \/ Encode \/ Decode \/ DecodeBytes \/ FromDict
        \/ TurretClient \/ move \/ shoot

Spec == Init /\ [][Next]_vars

\* ------------------------------------------------------------------------
\* Properties
\* ------------------------------------------------------------------------
\* the frames of the protocol, byte for byte
DiscoverFrame == <<129, 164, 116, 121, 112, 101, 168, 100, 105, 115, 99, 111, 118, 101, 114>>
AckFrame == <<129, 164, 116, 121, 112, 101, 171, 97, 99, 107, 110, 111, 119, 108, 101, 100, 103, 101>>
\* Address{port: 9000}
AddressFrame == <<130, 164, 116, 121, 112, 101, 167, 97, 100, 100, 114, 101, 115, 115,
                  164, 112, 111, 114, 116, 205, 35, 40>>
\* Move{base_angle: 10.0, elev_angle: 5.0}
MoveFrame == <<131, 164, 116, 121, 112, 101, 164, 109, 111, 118, 101,
               170, 98, 97, 115, 101, 95, 97, 110, 103, 108, 101, 203, 64, 36, 0, 0, 0, 0, 0, 0,
               170, 101, 108, 101, 118, 95, 97, 110, 103, 108, 101, 203, 64, 20, 0, 0, 0, 0, 0, 0>>

\* every field of the message is a number (an int, a bool or a whole double)
NumberFields(m) ==
    CASE m.cls = "MoveMsg" -> IsNumber(m.base_angle) /\ IsNumber(m.elev_angle)
      [] m.cls = "StatusMsg" -> IsNumber(m.base_angle) /\ IsNumber(m.elev_angle)
      [] OTHER -> TRUE

\* C1: decoding what encode returned for a message the constructor accepted,
\* as the class of that message, succeeds and returns a message equal (==)
\* to it.  (Stated for messages whose fields are numbers: a NaN is unequal
\* to itself in any case.)
C1_RoundTrip ==
    (cstep = "decoded" /\ msg.ok /\ out.cls = msg.val.cls /\ NumberFields(msg.val))
        => (out.res.ok /\ MsgEq(out.res.val, msg.val))

\* the "type" key of d is missing or is not the tag of cls
WrongTag(d, cls) == ~HasKey(d, S_type) \/ GetItem(d, S_type) # PStr(Tag(cls))

\* C2: decoding the encoding of a message of class A as another class B fails
\* with MsgTypeError, and so does B.from_dict on every map whose "type" is
\* missing or is not B's tag, whatever its other keys hold.
C2_TagMismatch ==
    /\ (cstep = "decoded" /\ msg.ok /\ out.cls # msg.val.cls)
          => out.res = Raise("MsgTypeError")
    /\ (cstep = "parsed" /\ WrongTag(given, out.cls))
          => out.res = Raise("MsgTypeError")

C2_Witness ==
    /\ cstep = "parsed" /\ out.cls = "StatusMsg"
    /\ HasKey(given, S_type) /\ GetItem(given, S_type) = PStr(S_move)
    /\ ~HasKey(given, S_shots)
    /\ out.res = Raise("MsgTypeError")

\* C3: when the read of move or shoot returned bytes that do not decode as an
\* acknowledgement, the call returns without an exception, warns exactly
\* once, and the session stays connected.
C3_SoftAckFailure ==
    (run = "session" /\ last.got /\ ~decode(last.resp, "AckMsg", 0).ok)
        => (last.exc = "" /\ last.warned = 1 /\ pc = "connected")

C3_Witness ==
    /\ last.op = "shoot" /\ last.got /\ last.resp = <<193>>
    /\ last.exc = "" /\ last.warned = 1 /\ pc = "connected"

\* the class whose message a call of op sends
OpClass(op) == IF op = "move" THEN "MoveMsg" ELSE "ShootMsg"

\* C4 as stated: every call of move or shoot, whatever its outcome, makes
\* exactly one write followed by exactly one read.
C4_AlwaysOneWriteOneRead ==
    (run = "session" /\ last.op # "")
        => (Len(last.io) = 2 /\ last.io[1].ev = "send" /\ last.io[2].ev = "recv")

\* C4 as amended: a call whose message is built writes the encoded request
\* once and first, then reads at most once and nothing else; it reads exactly
\* once unless the write raised, so a call that returns has made one write
\* then one read.  A call whose message constructor raises touches the
\* socket not at all.
C4_OneWriteThenOneRead ==
    (run = "session" /\ last.op # "") =>
        LET m == New(OpClass(last.op), last.args, 0) IN
        /\ ~m.ok => (last.io = <<>> /\ last.exc = m.exc)
        /\ m.ok =>
             /\ Len(last.io) \in {1, 2}
             /\ last.io[1] = [ev |-> "send", data |-> packb(to_dict(m.val))]
             /\ Len(last.io) = 1 => (last.env.send = "OSError" /\ last.exc = "OSError")
             /\ Len(last.io) = 2 => (last.env.send = "ok" /\ last.io[2].ev = "recv")
             /\ (last.exc = "" /\ ~last.blocked)
                    => last.io = <<[ev |-> "send", data |-> packb(to_dict(m.val))],
                                   [ev |-> "recv", data |-> last.resp]>>

C4_Witness ==
    /\ last.op = "move" /\ last.args = <<PFloat(10), PFloat(5)>>
    /\ last.io = <<[ev |-> "send", data |-> MoveFrame], [ev |-> "recv", data |-> AckFrame]>>
    /\ last.exc = "" /\ last.warned = 0

\* C5: an error of sendto, of the discovery's decode or of connect makes
\* __init__ raise it, and then no move or shoot is ever made; an error of
\* send or of recv makes move or shoot raise it, without a warning.
C5_TransportErrorsPropagate ==
    run = "session" =>
        /\ ctor.send = "OSError" => (pc = "failed" /\ ctor.exc = "OSError" /\ ctor.tried = NoPeer)
        /\ (ctor.addr = None /\ ctor.udp.recvs = 1 /\ ~ctor.udp.blocked /\ ~ctor.udp.res.ok)
              => (pc = "failed" /\ ctor.exc = ctor.udp.res.exc /\ ctor.tried = NoPeer)
        /\ ctor.connect = "OSError" => (pc = "failed" /\ ctor.exc = "OSError")
        /\ pc = "failed" => (ctor.exc # "" /\ nops = 0 /\ last = NoOp /\ stream = <<>>)
        /\ last.env.send = "OSError"
              => (last.exc = "OSError" /\ last.warned = 0 /\ Len(last.io) = 1)
        /\ (last.env.send = "ok" /\ last.env.recv = "OSError")
              => (last.exc = "OSError" /\ last.warned = 0 /\ ~last.got)

C5_Witness ==
    /\ last.op = "move" /\ last.env.send = "ok" /\ last.env.recv = "OSError"
    /\ Len(last.io) = 2 /\ last.exc = "OSError" /\ last.warned = 0

\* C6: a client built without an address sends one Discover datagram to
\* 255.255.255.255:12346 and receives at most one datagram; when that decodes
\* as an Address, connect is called with the datagram's source IP and the
\* payload's port; when it does not, the decode's exception escapes and no
\* connect is made; the discovery socket is closed either way.
C6_Discovery ==
    (run = "session" /\ pc # "new" /\ ctor.addr = None) =>
        LET r == decode(ctor.dgram.data, "AddrMsg", 0) IN
        /\ ctor.udp.sent = <<[data |-> DiscoverFrame, dest |-> <<"255.255.255.255", 12346>>]>>
        /\ ctor.udp.recvs <= 1
        /\ (ctor.send = "ok" /\ ~ctor.dgram.silent) =>
             /\ ctor.udp.recvs = 1 /\ ctor.udp.closed
             /\ r.ok => /\ ctor.udp.res = Ok(Addr(ctor.dgram.src, r.val.port))
                        /\ ctor.tried = Addr(ctor.dgram.src, r.val.port)
                        /\ ctor.connected = (ctor.connect = "ok")
             /\ ~r.ok => (ctor.exc = r.exc /\ ctor.tried = NoPeer /\ pc = "failed")

C6_Witness ==
    /\ ctor.addr = None /\ ctor.dgram = Datagram("10.0.0.5", AddressFrame)
    /\ ctor.udp.res = Ok(Addr("10.0.0.5", PInt(9000)))
    /\ ctor.tried = Addr("10.0.0.5", PInt(9000)) /\ ctor.connected

\* v is a number below lb
Below(v, lb) == IsNumber(v) /\ Num(v) < lb
\* the constrained field of a call or a map is below its bound
BadCall(c) ==
    CASE c.cls = "ShootMsg" -> Below(c.args[1], 0)
      [] c.cls = "AddrMsg" -> Below(c.args[1], 1)
      [] c.cls = "StatusMsg" -> Below(c.args[3], 0)
      [] OTHER -> FALSE
BadMap(d, cls) ==
    /\ ~WrongTag(d, cls)
    /\ CASE cls = "ShootMsg" -> HasKey(d, S_times) /\ Below(GetItem(d, S_times), 0)
         [] cls = "AddrMsg" -> HasKey(d, S_port) /\ Below(GetItem(d, S_port), 1)
         [] cls = "StatusMsg" -> HasKey(d, S_shots) /\ Below(GetItem(d, S_shots), 0)
         [] OTHER -> FALSE
\* the other arguments of the call are of the types the constructor takes
RestFine(c) ==
    c.cls = "StatusMsg" => \A i \in 1..2 : IsInt(c.args[i]) \/ IsFloat(c.args[i])
InRange(m) ==
    CASE m.cls = "ShootMsg" -> IsInt(m.times) /\ Num(m.times) >= 0
      [] m.cls = "AddrMsg" -> IsInt(m.port) /\ Num(m.port) >= 1
      [] m.cls = "StatusMsg" -> IsInt(m.shots) /\ Num(m.shots) >= 0
      [] OTHER -> TRUE

\* C7: constructing Shoot with times < 0, Address with port < 1 or Status with
\* shots < 0 raises (ValueError for an int, when the other arguments are
\* fine), directly and through from_dict or decode of a map with the right
\* tag, so no such message exists; shoot(n) with n < 0 raises before anything
\* is written.
C7_Constraints ==
    /\ (cstep = "built" /\ BadCall(call))
          => (~msg.ok /\ msg.exc \in {"ValueError", "TypeError"})
    /\ (cstep = "built" /\ BadCall(call) /\ IsInt(call.args[Len(call.args)]) /\ RestFine(call))
          => msg = Raise("ValueError")
    /\ (cstep = "parsed" /\ BadMap(given, out.cls)) => ~out.res.ok
    /\ (cstep = "parsed" /\ BadMap(given, out.cls) /\ out.cls \in {"ShootMsg", "AddrMsg"}
           /\ IsInt(given.kv[2][2])) => out.res = Raise("ValueError")
    /\ (cstep = "decoded" /\ ~msg.ok /\ unpackb(wire.val).ok
           /\ unpackb(wire.val).val.t = "dict" /\ BadMap(unpackb(wire.val).val, out.cls))
          => ~out.res.ok
    /\ msg.ok => InRange(msg.val)
    /\ out.res.ok => InRange(out.res.val)
    /\ (run = "session" /\ last.op = "shoot" /\ Below(last.args[1], 0))
          => (last.io = <<>> /\ last.exc \in {"ValueError", "TypeError"} /\ last.warned = 0)

C7_Witness ==
    /\ last.op = "shoot" /\ last.args = <<PInt(-1)>>
    /\ last.io = <<>> /\ last.exc = "ValueError"

\* bs does not deserialize into a map
NotAMap(bs) == ~unpackb(bs).ok \/ unpackb(bs).val.t # "dict"

\* C8: decode of bytes that do not deserialize into a top-level map fails
\* with DecodeError, whatever the class asked for.
C8_DecodeErrorOnNonMap ==
    (cstep = "decoded" /\ wire.ok /\ NotAMap(wire.val)) => out.res = Raise("DecodeError")

\* C9: no Move is built from an integer angle, by the constructor or by
\* from_dict and decode, so no Move that exists and no Move frame sent holds
\* an integer angle; a Status built from integer angles has float angles and
\* equals, and encodes as, the Status built from the equal floats.
C9_StrictFloats ==
    /\ (cstep = "built" /\ call.cls = "MoveMsg" /\ (IsInt(call.args[1]) \/ IsInt(call.args[2])))
          => ~msg.ok
    /\ (msg.ok /\ msg.val.cls = "MoveMsg")
          => (~IsInt(msg.val.base_angle) /\ ~IsInt(msg.val.elev_angle))
    /\ (out.res.ok /\ out.res.val.cls = "MoveMsg")
          => (IsFloat(out.res.val.base_angle) /\ IsFloat(out.res.val.elev_angle))
    /\ (run = "session" /\ last.op = "move" /\ Len(last.io) > 0)
          => LET sent == unpackb(last.io[1].data).val IN
             ~IsInt(GetItem(sent, S_base_angle)) /\ ~IsInt(GetItem(sent, S_elev_angle))
    /\ (cstep = "built" /\ call.cls = "StatusMsg" /\ msg.ok
           /\ IsInt(call.args[1]) /\ IsInt(call.args[2]))
          => LET f == StatusMsg(PFloat(Num(call.args[1])), PFloat(Num(call.args[2])),
                                call.args[3])
             IN /\ msg.val.base_angle = PFloat(Num(call.args[1]))
                /\ msg.val.elev_angle = PFloat(Num(call.args[2]))
                /\ f.ok /\ MsgEq(msg.val, f.val) /\ encode(msg.val) = encode(f.val)

\* C10: against a server that answers each request with one acknowledgement,
\* the bytes the read of each call returns are that call's acknowledgement,
\* whole and alone.
C10_ReplyPairing ==
    (run = "session" /\ ackOnly /\ last.got) => last.resp = AckFrame

====
